---- MODULE Spec2Model ----
(***************************************************************************)
(* Model of src/src/generate_data.py: the synthetic SaaS funnel generator. *)
(*                                                                         *)
(* generate_data() is one sequential procedure.  Its state is the three    *)
(* growing collections (users, events, subscriptions), the loop variables  *)
(* and the per-user journey flags.  Every call of the random generators is *)
(* an input, drawn with \E from a sample of the values the call can        *)
(* return.                                                                 *)
(*                                                                         *)
(* Units.  Timestamps are integer minutes: datetime.now() is the only      *)
(* source of a sub-minute part and every timedelta of the program is a     *)
(* whole number of minutes, hours or days.  Probabilities are integers in  *)
(* thousandths (0.045 is 45, 1.0 is 1000); random.random() returns a value *)
(* of [0, 1), here 0..999.                                                 *)
(*                                                                         *)
(* Identifiers.  uuid.uuid4() is modelled as a fresh value: next_sid       *)
(* counts the session identifiers handed out so far.  event_id, page,      *)
(* referrer and the property bags other than {"attempt": n} are written    *)
(* once and never read by the generator; the event records leave them out. *)
(***************************************************************************)
EXTENDS Integers, Sequences, FiniteSets

VARIABLES
    NUM_USERS,              \* configured number of users (line 29)
    users, events, subscriptions,
    events_df,              \* the sorted events table (line 585)
    data_files,             \* the CSV files written (lines 593-596)
    pc,                     \* position in generate_data
    user_id,                \* for user_id in range(1, NUM_USERS + 1)
    sessions, s,            \* for s in range(sessions)
    t0, t, session_id,
    loop_left,              \* iterations left of the running for _ in range(n)
    activated, value_moment, trial_started, subscribed,
    subscription_start_ts,
    checkout_attempts, attempt,
    next_sid

vars == <<NUM_USERS, users, events, subscriptions, events_df, data_files, pc, user_id, sessions, s,
          t0, t, session_id, loop_left, activated, value_moment,
          trial_started, subscribed, subscription_start_ts,
          checkout_attempts, attempt, next_sid>>

----------------------------------------------------------------------------
(* Bounds of the model *)

MaxUsers == 2
MaxSessions == 2

(* Program constants *)

DAYS_LOOKBACK == 90

(* None and optional values: None is <<>>, a present value v is <<v>>. *)
None == <<>>
Some(v) == <<v>>
Val(o) == o[1]

(* timedelta(minutes=n), timedelta(hours=n), timedelta(days=n), in minutes *)
Minutes(n) == n
Hours(n) == n * 60
Days(n) == n * 1440

(* timedelta.days: the whole days of a difference given in minutes *)
DaysOf(delta) == delta \div 1440

----------------------------------------------------------------------------
(* Samples of the random draws.  The draws are stratified so that every   *)
(* branch of the journey is taken without enumerating every combination:  *)
(*   deep    one user with one session: every in-session draw varies;     *)
(*   mid     one user with two sessions: the funnel draws vary;           *)
(*   narrow  several users in a row, or a longer journey: only the        *)
(*           funnel outcome varies.                                       *)

Sample(n, deep, mid, narrow) ==
    IF NUM_USERS > 1 \/ n > 2 THEN narrow ELSE IF n = 1 THEN deep ELSE mid

\* random.random(), in thousandths: any outcome, a low draw, a high draw
Both == {0, 300, 600, 999}
Low == {0}
High == {999}

NowSamples == {200000}
SignupDaySamples == {DAYS_LOOKBACK}
SignupMinuteSamples == {0}
ChannelSamples == {"organic", "paid_social"}
DeviceSamples == {"web"}
CountrySamples == {"US"}
CompanySizeSamples == {"solo", "2-10", "11-50", "51-200"}
PersonaSamples == {"maker"}
SessionCounts == 1..MaxSessions
SessionGapSamples == {0, 48}
BrowsingSamples == {"landing_page_view"}
ProductSamples == {"dashboard_view"}

----------------------------------------------------------------------------
(* Helpers of the program *)

Max(a, b) == IF a >= b THEN a ELSE b
Min(a, b) == IF a <= b THEN a ELSE b

clamp01(x) == Max(0, Min(1000, x))

random_timestamp_within_last_n_days(now, days, minutes) ==
    now - (Days(days) + Minutes(minutes))

onboarding_start_probability(channel) ==
    CASE channel = "organic" -> 880
      [] channel = "referral" -> 900
      [] channel = "paid_search" -> 850
      [] channel = "partner" -> 820
      [] channel = "paid_social" -> 780

activation_probability(channel, device, persona, company_size) ==
    LET base == CASE channel = "organic" -> 520
                  [] channel = "referral" -> 580
                  [] channel = "paid_search" -> 420
                  [] channel = "partner" -> 380
                  [] channel = "paid_social" -> 280
        b1 == IF device = "mobile" THEN base - 50 ELSE base
        b2 == IF persona \in {"maker", "agency"} THEN b1 + 30
              ELSE IF persona = "analyst" THEN b1 + 10 ELSE b1
        b3 == IF company_size \in {"51-200"} THEN b2 - 20 ELSE b2
    IN  clamp01(b3)

value_moment_probability(persona) ==
    CASE persona = "maker" -> 350
      [] persona = "startup_ops" -> 450
      [] persona = "analyst" -> 300
      [] persona = "agency" -> 500

trial_probability(act, channel) ==
    LET base == IF act THEN 620 ELSE 70
        b1 == IF channel \in {"referral", "organic"} THEN base + 30 ELSE base
        b2 == IF channel = "paid_social" THEN b1 - 20 ELSE b1
    IN  clamp01(b2)

payment_failure_probability(device, country) ==
    LET base == IF device = "web" THEN 45 ELSE 120
        b1 == IF country = "IN" THEN base + 40 ELSE base
    IN  clamp01(b1)

trial_to_paid_probability(act, channel, company_size) ==
    LET base == IF act THEN 420 ELSE 60
        b1 == IF channel = "referral" THEN base + 50
              ELSE IF channel = "organic" THEN base + 30
              ELSE IF channel = "paid_social" THEN base - 50 ELSE base
        b2 == IF company_size \in {"11-50", "51-200"} THEN b1 + 40 ELSE b1
    IN  clamp01(b2)

\* mutant: the "11-50" bracket falls through to the last branch
pick_plan_bracket(company_size) ==
    IF company_size = "solo" THEN [plan |-> "starter", mrr |-> 29]
    ELSE IF company_size \in {"2-10"} THEN [plan |-> "pro", mrr |-> 79]
    ELSE [plan |-> "business", mrr |-> 199]

\* mutant: the first test compares with the wrong bracket
pick_plan_solo(company_size) ==
    IF company_size = "2-10" THEN [plan |-> "starter", mrr |-> 29]
    ELSE IF company_size \in {"solo", "11-50"} THEN [plan |-> "pro", mrr |-> 79]
    ELSE [plan |-> "business", mrr |-> 199]

pick_plan(company_size) ==
    IF company_size = "solo" THEN [plan |-> "starter", mrr |-> 29]
    ELSE IF company_size \in {"2-10", "11-50"} THEN [plan |-> "pro", mrr |-> 79]
    ELSE [plan |-> "business", mrr |-> 199]

churn_probability(plan) ==
    CASE plan = "starter" -> 300
      [] plan = "pro" -> 180
      [] plan = "business" -> 100

\* add_event: the appended record, without the fields nothing reads back.
\* att is the "attempt" property, 0 when the property bag has none.
add_event(events_list, uid, event_ts, event_name, sid, att) ==
    Append(events_list,
           [user_id |-> uid, event_ts |-> event_ts, session_id |-> sid,
            event_name |-> event_name, attempt |-> att])

\* mutant: the clock is moved back
AdvanceBack(clock, n) == clock - Minutes(n)

\* t += timedelta(minutes=n)
Advance(clock, n) == clock + Minutes(n)

\* mutant: the gap is subtracted from the baseline
SessionStartTsBefore(base, gap, jitter) == base - Hours(gap) + Minutes(jitter)

\* session_start = t0 + timedelta(hours=gap) + timedelta(minutes=jitter)
SessionStartTs(base, gap, jitter) == base + Hours(gap) + Minutes(jitter)

\* mutant: the loop index is used as it is
AttemptNoZeroBased(a) == a

\* props={"attempt": attempt + 1}
AttemptNo(a) == a + 1

\* the user whose journey is running
user == users[Len(users)]

\* mutant: the signup block runs in every session
FirstSessionAlways(si) == TRUE

\* line 332: if s == 0
FirstSession(si) == si = 0

\* mutant: the activation roll is made again for an activated user
ShouldActivateAgain(act, r, p) == r < p

\* lines 378-384: if not activated: if random.random() < activation_probability
ShouldActivate(act, r, p) == (~act) /\ r < p

\* mutant: the trial roll is made again after a trial has started
ShouldStartTrialAgain(started, r, p) == r < p

\* line 437: if (not trial_started) and random.random() < trial_probability
ShouldStartTrial(started, r, p) == (~started) /\ r < p

\* mutant: no break after the success flow, the next attempt is simulated
AfterPaidNoBreak(a, n) == IF a + 1 < n THEN "checkout" ELSE "retention"

\* line 496: break, the attempt loop is left after a payment that went through
AfterPaid(a, n) == "retention"

\* mutant: the start is recorded after the clock has been advanced
SubscribedAtAdvanced(clock, advanced) == Some(advanced)

\* line 494: subscription_start_ts = t, before t += timedelta(...) of line 495
SubscribedAt(clock, advanced) == Some(clock)

\* mutant: the jitter is taken in hours
RetentionTsHours(signup_ts, m) == signup_ts + Days(7) + Hours(m)

\* lines 567-569: user["signup_ts"] + timedelta(days=7, minutes=randint(0, 600))
RetentionTs(signup_ts, m) == signup_ts + Days(7) + Minutes(m)

----------------------------------------------------------------------------
Init ==
    /\ NUM_USERS \in 1..MaxUsers
    /\ users = <<>>
    /\ events = <<>>
    /\ subscriptions = <<>>
    /\ events_df = <<>>
    /\ data_files = {}
    /\ pc = "user_loop"
    /\ user_id = 0
    /\ sessions = 0
    /\ s = 0
    /\ t0 = 0
    /\ t = 0
    /\ session_id = 0
    /\ loop_left = 0
    /\ activated = FALSE
    /\ value_moment = FALSE
    /\ trial_started = FALSE
    /\ subscribed = FALSE
    /\ subscription_start_ts = None
    /\ checkout_attempts = 0
    /\ attempt = 0
    /\ next_sid = 1

\* mutant: the journey flags are not reset for the next user
GenerateUserKeepsFlags ==
    /\ pc = "user_loop"
    /\ user_id < NUM_USERS
    /\ \E n \in Sample(1, SessionCounts, SessionCounts, {1}) :
       \E now \in NowSamples, d \in SignupDaySamples,
          m \in SignupMinuteSamples,
          ch \in Sample(n, {"organic"}, ChannelSamples, {"organic"}),
          dev \in DeviceSamples, co \in CountrySamples,
          cs \in Sample(n, {"solo", "51-200"}, CompanySizeSamples,
                        {"solo"}),
          pe \in PersonaSamples :
        LET signup_ts == random_timestamp_within_last_n_days(now, d, m)
        IN  /\ users' = Append(users,
                   [user_id |-> user_id + 1, signup_ts |-> signup_ts,
                    acquisition_channel |-> ch, device |-> dev,
                    country |-> co, company_size |-> cs, persona |-> pe])
            /\ sessions' = n
            /\ t0' = signup_ts
    /\ user_id' = user_id + 1
    /\ s' = 0
    /\ UNCHANGED <<activated, value_moment, trial_started, subscribed,
                   subscription_start_ts>>
    /\ pc' = "session_loop"
    /\ UNCHANGED <<NUM_USERS, events, subscriptions, events_df, data_files, t, session_id,
                   loop_left,
                   checkout_attempts, attempt, next_sid>>

\* lines 261-276: next user, its attributes, its session count, fresh flags
GenerateUser ==
    /\ pc = "user_loop"
    /\ user_id < NUM_USERS
    /\ \E n \in Sample(1, SessionCounts, SessionCounts, {1}) :
       \E now \in NowSamples, d \in SignupDaySamples,
          m \in SignupMinuteSamples,
          ch \in Sample(n, {"organic"}, ChannelSamples, {"organic"}),
          dev \in DeviceSamples, co \in CountrySamples,
          cs \in Sample(n, {"solo", "51-200"}, CompanySizeSamples,
                        {"solo"}),
          pe \in PersonaSamples :
        LET signup_ts == random_timestamp_within_last_n_days(now, d, m)
        IN  /\ users' = Append(users,
                   [user_id |-> user_id + 1, signup_ts |-> signup_ts,
                    acquisition_channel |-> ch, device |-> dev,
                    country |-> co, company_size |-> cs, persona |-> pe])
            /\ sessions' = n
            /\ t0' = signup_ts
    /\ user_id' = user_id + 1
    /\ s' = 0
    /\ activated' = FALSE
    /\ value_moment' = FALSE
    /\ trial_started' = FALSE
    /\ subscribed' = FALSE
    /\ subscription_start_ts' = None
    /\ pc' = "session_loop"
    /\ UNCHANGED <<NUM_USERS, events, subscriptions, events_df, data_files, t, session_id,
                   loop_left,
                   checkout_attempts, attempt, next_sid>>

\* random.randint(lo, hi): the lower end, or both ends
RandintLow(lo, hi) == {lo}
RandintEnds(lo, hi) == {lo, hi}

\* lines 279-310: session start, fresh session id, session clock, browse count
SessionStart ==
    /\ pc = "session_loop"
    /\ s < sessions
    /\ \E gap \in Sample(sessions, {48}, SessionGapSamples, {0}),
          jitter \in RandintLow(0, 120),
          browse_count \in Sample(sessions, {1, 2}, {1}, {1}) :
        /\ t' = SessionStartTs(t0, gap, jitter)
        /\ loop_left' = browse_count
    /\ session_id' = next_sid
    /\ next_sid' = next_sid + 1
    /\ pc' = "browse"
    /\ UNCHANGED <<NUM_USERS, users, events, subscriptions, events_df, data_files, user_id,
                   sessions, s, t0, activated, value_moment, trial_started, subscribed,
                   subscription_start_ts, checkout_attempts, attempt>>

\* lines 311-329: one browsing event, then the loop test and `if s == 0`
Browse ==
    /\ pc = "browse"
    /\ loop_left > 0
    /\ \E ev \in BrowsingSamples, inc \in RandintLow(1, 20) :
        /\ events' = add_event(events, user_id, t, ev, session_id, 0)
        /\ t' = Advance(t, inc)
    /\ loop_left' = loop_left - 1
    /\ pc' = IF loop_left > 1 THEN "browse"
             ELSE IF FirstSession(s) THEN "signup" ELSE "activation"
    /\ UNCHANGED <<NUM_USERS, users, subscriptions, events_df, data_files, user_id, sessions, s, t0,
                   session_id, activated, value_moment, trial_started,
                   subscribed, subscription_start_ts, checkout_attempts,
                   attempt, next_sid>>

\* lines 332-349: signup, then email_verified with probability 0.78
Signup ==
    /\ pc = "signup"
    /\ \E inc1 \in RandintLow(1, 30), r \in Sample(sessions, Both, Low, Low),
          inc2 \in RandintLow(1, 30) :
        LET e1 == add_event(events, user_id, t, "signup", session_id, 0)
            t1 == Advance(t, inc1)
        IN  IF r < 780
            THEN /\ events' = add_event(e1, user_id, t1, "email_verified",
                                        session_id, 0)
                 /\ t' = Advance(t1, inc2)
            ELSE /\ events' = e1
                 /\ t' = t1
    /\ pc' = "onboarding"
    /\ UNCHANGED <<NUM_USERS, users, subscriptions, events_df, data_files, user_id, sessions, s, t0,
                   session_id, loop_left, activated, value_moment,
                   trial_started, subscribed, subscription_start_ts,
                   checkout_attempts, attempt, next_sid>>

\* lines 351-375: onboarding_start, then onboarding_complete
Onboarding ==
    /\ pc = "onboarding"
    /\ \E r1 \in Sample(sessions, Both, Low, Low), inc1 \in RandintLow(2, 60),
          r2 \in Sample(sessions, Both, Low, Low), inc2 \in RandintLow(2, 30) :
        IF r1 < onboarding_start_probability(user.acquisition_channel)
        THEN LET e1 == add_event(events, user_id, t, "onboarding_start",
                                 session_id, 0)
                 t1 == Advance(t, inc1)
             IN  IF r2 < 700
                 THEN /\ events' = add_event(e1, user_id, t1,
                                      "onboarding_complete", session_id, 0)
                      /\ t' = Advance(t1, inc2)
                 ELSE /\ events' = e1
                      /\ t' = t1
        ELSE /\ events' = events
             /\ t' = t
    /\ pc' = "activation"
    /\ UNCHANGED <<NUM_USERS, users, subscriptions, events_df, data_files, user_id, sessions, s, t0,
                   session_id, loop_left, activated, value_moment,
                   trial_started, subscribed, subscription_start_ts,
                   checkout_attempts, attempt, next_sid>>

\* lines 377-399: activation roll, create_first_project, product event count
Activation ==
    /\ pc = "activation"
    /\ \E r \in Both, inc \in RandintLow(2, 40),
          n \in Sample(sessions, {1, 2}, {1}, {1}) :
        IF ShouldActivate(activated, r,
               activation_probability(user.acquisition_channel,
                   user.device, user.persona, user.company_size))
        THEN /\ events' = add_event(events, user_id, t,
                                    "create_first_project", session_id, 0)
             /\ t' = Advance(t, inc)
             /\ activated' = TRUE
             /\ loop_left' = n
             /\ pc' = "product"
        ELSE /\ pc' = "trial"
             /\ UNCHANGED <<events, t, activated, loop_left>>
    /\ UNCHANGED <<NUM_USERS, users, subscriptions, events_df, data_files, user_id, sessions, s, t0,
                   session_id, value_moment, trial_started, subscribed,
                   subscription_start_ts, checkout_attempts, attempt,
                   next_sid>>

\* lines 400-402: one product event after activation
Product ==
    /\ pc = "product"
    /\ loop_left > 0
    /\ \E pe \in ProductSamples, inc \in RandintLow(1, 25) :
        /\ events' = add_event(events, user_id, t, pe, session_id, 0)
        /\ t' = Advance(t, inc)
    /\ loop_left' = loop_left - 1
    /\ pc' = IF loop_left > 1 THEN "product" ELSE "value_moment"
    /\ UNCHANGED <<NUM_USERS, users, subscriptions, events_df, data_files, user_id, sessions, s, t0,
                   session_id, activated, value_moment, trial_started,
                   subscribed, subscription_start_ts, checkout_attempts,
                   attempt, next_sid>>

\* lines 404-434: the value moment, invite_teammate or connect_integration
ValueMoment ==
    /\ pc = "value_moment"
    /\ \E r1 \in Sample(sessions, Both, Both, Low),
          r2 \in Sample(sessions, Both, Low, Low), inc \in RandintLow(2, 45) :
        IF r1 < value_moment_probability(user.persona)
        THEN /\ events' = add_event(events, user_id, t,
                              IF r2 < 550 THEN "invite_teammate"
                              ELSE "connect_integration", session_id, 0)
             /\ t' = Advance(t, inc)
             /\ value_moment' = TRUE
        ELSE UNCHANGED <<events, t, value_moment>>
    /\ pc' = "trial"
    /\ UNCHANGED <<NUM_USERS, users, subscriptions, events_df, data_files, user_id, sessions, s, t0,
                   session_id, loop_left, activated, trial_started,
                   subscribed, subscription_start_ts, checkout_attempts,
                   attempt, next_sid>>

\* lines 436-449: trial_start and the number of checkout attempts
Trial ==
    /\ pc = "trial"
    /\ \E r \in Both, inc \in RandintLow(1, 30),
          n \in Sample(sessions, {1, 2, 3}, {1, 2}, {1}) :
        IF ShouldStartTrial(trial_started, r,
               trial_probability(activated, user.acquisition_channel))
        THEN /\ events' = add_event(events, user_id, t, "trial_start",
                                    session_id, 0)
             /\ t' = Advance(t, inc)
             /\ trial_started' = TRUE
             /\ checkout_attempts' = n
             /\ attempt' = 0
             /\ pc' = "checkout"
        ELSE /\ pc' = "retention"
             /\ UNCHANGED <<events, t, trial_started, checkout_attempts,
                            attempt>>
    /\ UNCHANGED <<NUM_USERS, users, subscriptions, events_df, data_files, user_id, sessions, s, t0,
                   session_id, loop_left, activated, value_moment, subscribed,
                   subscription_start_ts, next_sid>>

\* lines 450-496: one iteration of for attempt in range(checkout_attempts)
Checkout ==
    /\ pc = "checkout"
    /\ attempt < checkout_attempts
    /\ \E inc1 \in RandintLow(1, 10), rf \in Both,
          inc2 \in RandintLow(3, 25), rb \in Sample(sessions, Both, Both, Low),
          rp \in Both, inc3 \in RandintLow(1, 15) :
        LET e1 == add_event(events, user_id, t, "checkout_start", session_id,
                            AttemptNo(attempt))
            t1 == Advance(t, inc1)
        IN  IF rf < payment_failure_probability(user.device, user.country)
            THEN /\ events' = add_event(e1, user_id, t1, "payment_failed",
                                        session_id, 0)
                 /\ t' = Advance(t1, inc2)
                 /\ attempt' = attempt + 1
                 /\ pc' = IF rb < 650 \/ attempt + 1 >= checkout_attempts
                          THEN "retention" ELSE "checkout"
                 /\ UNCHANGED <<subscribed, subscription_start_ts>>
            ELSE /\ IF (~subscribed)
                       /\ rp < trial_to_paid_probability(activated,
                                 user.acquisition_channel, user.company_size)
                    THEN /\ events' = add_event(e1, user_id, t1,
                                          "subscription_created", session_id, 0)
                         /\ subscribed' = TRUE
                         /\ subscription_start_ts'
                               = SubscribedAt(t1, Advance(t1, inc3))
                    ELSE /\ events' = e1
                         /\ UNCHANGED <<subscribed, subscription_start_ts>>
                 /\ t' = Advance(t1, inc3)
                 /\ attempt' = attempt + 1
                 /\ pc' = AfterPaid(attempt, checkout_attempts)
    /\ UNCHANGED <<NUM_USERS, users, subscriptions, events_df, data_files, user_id, sessions, s, t0,
                   session_id, loop_left, activated, value_moment,
                   trial_started, checkout_attempts, next_sid>>

\* lines 498-505: dashboard_view for activated users, then the next session
Retention ==
    /\ pc = "retention"
    /\ \E r \in Sample(sessions, Both, Both, High), inc \in RandintLow(1, 20) :
        IF activated /\ r < (IF ~subscribed THEN 400 ELSE 550)
        THEN /\ events' = add_event(events, user_id, t, "dashboard_view",
                                    session_id, 0)
             /\ t' = Advance(t, inc)
        ELSE UNCHANGED <<events, t>>
    /\ s' = s + 1
    /\ pc' = IF s + 1 < sessions THEN "session_loop" ELSE "resolve"
    /\ UNCHANGED <<NUM_USERS, users, subscriptions, events_df, data_files, user_id, sessions, t0,
                   session_id, loop_left, activated, value_moment,
                   trial_started, subscribed, subscription_start_ts,
                   checkout_attempts, attempt, next_sid>>

\* mutant: the test of the start timestamp is inverted
HasSubscriptionInverted(sub, start) == sub /\ start = None

\* line 508: if subscribed and subscription_start_ts is not None
HasSubscription(sub, start) == sub /\ start # None

\* mutant: timedelta(hours=...) in place of timedelta(days=...)
ChurnTsHours(start, days) == start + Hours(days)

\* lines 513-515: subscription_start_ts + timedelta(days=random.randint(30, 75))
ChurnTs(start, days) == start + Days(days)

\* lines 543 and 553: churn_ts is None or (churn_ts - start).days >= n
RetentionEligible(churn_ts, start, n) ==
    churn_ts = None \/ DaysOf(Val(churn_ts) - start) >= n

\* mutant: timedelta(weeks=n) in place of timedelta(days=n)
MarkerTsWeeks(start, n) == start + Days(7 * n)

\* lines 548 and 558: subscription_start_ts + timedelta(days=n)
MarkerTs(start, n) == start + Days(n)

\* mutant: the churn offset is applied in hours and the retention markers
\* test the drawn number instead of the difference of the two timestamps
ResolveSubscriberDrawn(evs, uid, company_size, start, rc, days, r7, r30, sid) ==
    LET pp == pick_plan(company_size)
        churned == rc < churn_probability(pp.plan)
        churn_ts == IF churned THEN Some(start + Hours(days)) ELSE None
        e1 == IF churned
              THEN add_event(evs, uid, Val(churn_ts), "cancel_subscription",
                             sid, 0)
              ELSE evs
        sid1 == IF churned THEN sid + 1 ELSE sid
        d7 == (churn_ts = None \/ days >= 7) /\ r7 < 600
        e2 == IF d7
              THEN add_event(e1, uid, start + Days(7), "active_day_7", sid1, 0)
              ELSE e1
        sid2 == IF d7 THEN sid1 + 1 ELSE sid1
        d30 == (churn_ts = None \/ days >= 30) /\ r30 < 450
        e3 == IF d30
              THEN add_event(e2, uid, start + Days(30), "active_day_30", sid2, 0)
              ELSE e2
        sid3 == IF d30 THEN sid2 + 1 ELSE sid2
    IN  [events |-> e3,
         record |-> [user_id |-> uid, plan |-> pp.plan, mrr |-> pp.mrr,
                     trial_start_ts |-> "",
                     subscription_start_ts |-> start, churn_ts |-> churn_ts],
         next_sid |-> sid3]

\* mutant: the record is built with the churn_ts of before the churn roll
ResolveSubscriberStale(evs, uid, company_size, start, rc, days, r7, r30, sid) ==
    LET pp == pick_plan(company_size)
        churned == rc < churn_probability(pp.plan)
        churn_ts == IF churned THEN Some(ChurnTs(start, days)) ELSE None
        e1 == IF churned
              THEN add_event(evs, uid, Val(churn_ts), "cancel_subscription",
                             sid, 0)
              ELSE evs
        sid1 == IF churned THEN sid + 1 ELSE sid
        d7 == RetentionEligible(churn_ts, start, 7) /\ r7 < 600
        e2 == IF d7
              THEN add_event(e1, uid, start + Days(7), "active_day_7", sid1, 0)
              ELSE e1
        sid2 == IF d7 THEN sid1 + 1 ELSE sid1
        d30 == RetentionEligible(churn_ts, start, 30) /\ r30 < 450
        e3 == IF d30
              THEN add_event(e2, uid, start + Days(30), "active_day_30", sid2, 0)
              ELSE e2
        sid3 == IF d30 THEN sid2 + 1 ELSE sid2
    IN  [events |-> e3,
         record |-> [user_id |-> uid, plan |-> pp.plan, mrr |-> pp.mrr,
                     trial_start_ts |-> "",
                     subscription_start_ts |-> start, churn_ts |-> None],
         next_sid |-> sid3]

\* lines 509-562: the subscriber branch of the resolver.  rc, r7, r30 are the
\* random.random() draws, days the randint(30, 75) draw, sid the next fresh
\* session identifier.  mrr is float(mrr): the same number.
ResolveSubscriber(evs, uid, company_size, start, rc, days, r7, r30, sid) ==
    LET pp == pick_plan(company_size)
        churned == rc < churn_probability(pp.plan)
        churn_ts == IF churned THEN Some(ChurnTs(start, days)) ELSE None
        e1 == IF churned
              THEN add_event(evs, uid, Val(churn_ts), "cancel_subscription",
                             sid, 0)
              ELSE evs
        sid1 == IF churned THEN sid + 1 ELSE sid
        d7 == RetentionEligible(churn_ts, start, 7) /\ r7 < 600
        e2 == IF d7
              THEN add_event(e1, uid, MarkerTs(start, 7), "active_day_7", sid1, 0)
              ELSE e1
        sid2 == IF d7 THEN sid1 + 1 ELSE sid1
        d30 == RetentionEligible(churn_ts, start, 30) /\ r30 < 450
        e3 == IF d30
              THEN add_event(e2, uid, MarkerTs(start, 30), "active_day_30",
                             sid2, 0)
              ELSE e2
        sid3 == IF d30 THEN sid2 + 1 ELSE sid2
    IN  [events |-> e3,
         record |-> [user_id |-> uid, plan |-> pp.plan, mrr |-> pp.mrr,
                     trial_start_ts |-> "",
                     subscription_start_ts |-> start, churn_ts |-> churn_ts],
         next_sid |-> sid3]

\* lines 507-577: subscription record, churn and retention markers
Resolve ==
    /\ pc = "resolve"
    /\ IF HasSubscription(subscribed, subscription_start_ts)
       THEN \E rc \in Both, days \in RandintEnds(30, 75),
               r7 \in Sample(sessions, Both, Low, Low),
               r30 \in Sample(sessions, Both, Low, Low) :
               LET out == ResolveSubscriber(events, user_id, user.company_size,
                              Val(subscription_start_ts), rc, days, r7, r30,
                              next_sid)
               IN  /\ events' = out.events
                   /\ subscriptions' = Append(subscriptions, out.record)
                   /\ next_sid' = out.next_sid
       ELSE \E r \in Sample(sessions, Both, Low, Low),
               m \in Sample(sessions, RandintEnds(0, 600), RandintLow(0, 600),
                            RandintLow(0, 600)) :
               IF activated /\ r < 180
               THEN /\ events' = add_event(events, user_id,
                                     RetentionTs(user.signup_ts, m),
                                     "active_day_7", next_sid, 0)
                    /\ next_sid' = next_sid + 1
                    /\ UNCHANGED subscriptions
               ELSE UNCHANGED <<events, subscriptions, next_sid>>
    /\ pc' = "user_loop"
    /\ UNCHANGED <<NUM_USERS, users, events_df, data_files, user_id, sessions, s, t0, t,
                   session_id, loop_left, activated, value_moment,
                   trial_started, subscribed, subscription_start_ts,
                   checkout_attempts, attempt>>

\* line 585: sort_values(["user_id", "event_ts"]), a stable sort on two keys
EventLeq(a, b) ==
    \/ a.user_id < b.user_id
    \/ a.user_id = b.user_id /\ a.event_ts <= b.event_ts

InsertSorted(e, sorted) ==
    LET before == {i \in 1..Len(sorted) : EventLeq(sorted[i], e)}
        k == IF before = {} THEN 0
             ELSE CHOOSE i \in before : \A j \in before : j <= i
    IN  SubSeq(sorted, 1, k) \o <<e>> \o SubSeq(sorted, k + 1, Len(sorted))

RECURSIVE SortEvents(_)
SortEvents(seq) ==
    IF seq = <<>> THEN <<>>
    ELSE InsertSorted(seq[Len(seq)], SortEvents(SubSeq(seq, 1, Len(seq) - 1)))

\* the three files of lines 594-596
CsvFiles == {"data/users.csv", "data/events.csv", "data/subscriptions.csv"}

\* the run is over: the files are written, or line 588 raised KeyError
Finished == pc \in {"done", "key_error"}

\* lines 579-596: the loop over the users is exhausted; the three frames are
\* built and the events frame is sorted (579-585).  pd.DataFrame([]) has no
\* column, so with no subscription record subs_df["subscription_start_ts"]
\* (line 588) raises KeyError and no file is written; otherwise the three
\* tables are written (593-596).  users_df and subs_df hold the rows of
\* users and subscriptions (to_datetime keeps a datetime, None becomes NaT).
Assemble ==
    /\ pc = "user_loop"
    /\ user_id >= NUM_USERS
    /\ events_df' = SortEvents(events)
    /\ IF subscriptions = <<>>
       THEN /\ pc' = "key_error"
            /\ data_files' = {}
       ELSE /\ pc' = "done"
            /\ data_files' = CsvFiles
    /\ UNCHANGED <<NUM_USERS, users, events, subscriptions, user_id, sessions,
                   s, t0, t, session_id, loop_left, activated, value_moment,
                   trial_started, subscribed, subscription_start_ts,
                   checkout_attempts, attempt, next_sid>>

Next == GenerateUser \/ SessionStart \/ Browse \/ Signup \/ Onboarding
        \/ Activation \/ Product \/ ValueMoment \/ Trial \/ Checkout
        \/ Retention \/ Resolve \/ Assemble

Spec == Init /\ [][Next]_vars

----------------------------------------------------------------------------
(* Vocabulary of the properties *)

EventIdx == 1..Len(events)
SubIdx == 1..Len(subscriptions)

\* the journey of user u is resolved: its record and markers are appended
Resolved(u) ==
    /\ u \in 1..Len(users)
    /\ u < user_id \/ (u = user_id /\ (pc = "user_loop" \/ Finished))

\* the events of user u with the given name, in the order they were appended
EventsNamed(u, name) ==
    SelectSeq(events, LAMBDA e : e.user_id = u /\ e.event_name = name)

\* positions of the events of user u with the given name
Positions(u, name) ==
    {i \in EventIdx : events[i].user_id = u /\ events[i].event_name = name}

\* i is the first event of its session, opened by the session loop
OpensSession(i) ==
    /\ events[i].event_name \in BrowsingSamples
    /\ \A j \in 1..(i - 1) : events[j].session_id # events[i].session_id

----------------------------------------------------------------------------
\* C1: every event of a user, session event or cancel_subscription,
\* active_day_7, active_day_30 marker, has a timestamp at or after the
\* signup_ts of that user.
C1_EventsNotBeforeSignup ==
    \A i \in EventIdx :
        events[i].event_ts >= users[events[i].user_id].signup_ts

\* a session that starts exactly at signup_ts, and a churn marker
C1_Witness ==
    /\ \E i \in EventIdx :
          events[i].event_ts = users[events[i].user_id].signup_ts
    /\ \E i \in EventIdx : events[i].event_name = "cancel_subscription"
    /\ \E i \in EventIdx : events[i].event_name = "active_day_30"

\* C2: the events that share a session identifier have non-decreasing
\* timestamps in the order they are emitted.
C2_SessionClockMonotone ==
    \A i, j \in EventIdx :
        (i < j /\ events[i].session_id = events[j].session_id)
            => events[i].event_ts <= events[j].event_ts

\* one session that runs from signup to subscription_created
C2_Witness ==
    \E i, j \in EventIdx :
        /\ i < j
        /\ events[i].session_id = events[j].session_id
        /\ events[i].event_name = "signup"
        /\ events[j].event_name = "subscription_created"

\* C3: once the journey of a user is resolved, subscriptions holds a record
\* of that user exactly if the journey ended with subscribed = true, and no
\* user_id ever has two records.
C3_RecordIffSubscribed ==
    /\ (pc = "user_loop" /\ user_id >= 1) =>
          ((\E k \in SubIdx : subscriptions[k].user_id = user_id)
              <=> subscribed)
    /\ \A u \in 1..Len(users) :
          Resolved(u) =>
              ((\E k \in SubIdx : subscriptions[k].user_id = u)
                  <=> Positions(u, "subscription_created") # {})
    /\ \A k1, k2 \in SubIdx :
          subscriptions[k1].user_id = subscriptions[k2].user_id => k1 = k2

\* the first user subscribed, the second one was resolved without a record
C3_Witness ==
    /\ pc = "user_loop"
    /\ user_id = 2
    /\ ~subscribed
    /\ Len(subscriptions) = 1
    /\ subscriptions[1].user_id = 1

\* C4: a churn_ts that is not null is strictly after subscription_start_ts,
\* by 30 to 75 days.
C4_ChurnAfterStart ==
    \A k \in SubIdx :
        subscriptions[k].churn_ts # None =>
            LET d == Val(subscriptions[k].churn_ts)
                        - subscriptions[k].subscription_start_ts
            IN  d > 0 /\ d >= Days(30) /\ d <= Days(75)

\* a record that churned on the last possible day
C4_Witness ==
    \E k \in SubIdx :
        /\ subscriptions[k].churn_ts # None
        /\ Val(subscriptions[k].churn_ts)
              = subscriptions[k].subscription_start_ts + Days(75)

\* the marker of day n of a user is allowed by the churn of that user
MarkerAllowed(i, n) ==
    \A k \in SubIdx :
        subscriptions[k].user_id = events[i].user_id =>
            \/ subscriptions[k].churn_ts = None
            \/ Val(subscriptions[k].churn_ts)
                  - subscriptions[k].subscription_start_ts >= Days(n)

\* C5: active_day_30 is emitted only if the churn of the user is null or at
\* least 30 days after subscription start; active_day_7 likewise with 7 days.
C5_MarkersRespectChurn ==
    \A i \in EventIdx :
        /\ events[i].event_name = "active_day_30" => MarkerAllowed(i, 30)
        /\ events[i].event_name = "active_day_7" => MarkerAllowed(i, 7)

\* a churned subscriber with both markers, churned on day 30 exactly
C5_Witness ==
    \E k \in SubIdx :
        /\ subscriptions[k].churn_ts
              = Some(subscriptions[k].subscription_start_ts + Days(30))
        /\ Positions(subscriptions[k].user_id, "active_day_30") # {}
        /\ Positions(subscriptions[k].user_id, "active_day_7") # {}

\* C6: the attempt property of the checkout_start events of a user is
\* 1, 2, 3 in this order, without gap or repeat, and there are at most 3.
C6_AttemptsCount ==
    \A u \in 1..Len(users) :
        LET cs == EventsNamed(u, "checkout_start")
        IN  /\ Len(cs) <= 3
            /\ \A k \in 1..Len(cs) : cs[k].attempt = k

\* a trial with three checkout attempts
C6_Witness ==
    \E u \in 1..Len(users) : Len(EventsNamed(u, "checkout_start")) = 3

\* C7: the plan of a record is a function of the company_size of its user
\* (solo: starter, 2-10 and 11-50: pro, 51-200: business) and mrr is the
\* price of the plan (29, 79, 199).
C7_PlanByCompanySize ==
    \A k \in SubIdx :
        LET size == users[subscriptions[k].user_id].company_size
            rec == subscriptions[k]
        IN  /\ size = "solo" => rec.plan = "starter"
            /\ size \in {"2-10", "11-50"} => rec.plan = "pro"
            /\ size = "51-200" => rec.plan = "business"
            /\ rec.plan = "starter" => rec.mrr = 29
            /\ rec.plan = "pro" => rec.mrr = 79
            /\ rec.plan = "business" => rec.mrr = 199

\* a record of an 11-50 user
C7_Witness ==
    \E k \in SubIdx :
        /\ users[subscriptions[k].user_id].company_size = "11-50"
        /\ subscriptions[k].plan = "pro"

\* the activation roll of user u never failed: create_first_project is in
\* the session of signup, where the first roll is made
ActivationForced(u) ==
    \E i \in Positions(u, "create_first_project"), j \in Positions(u, "signup") :
        events[i].session_id = events[j].session_id

\* the trial-to-paid roll of user u never failed: every checkout_start is
\* followed by payment_failed or by subscription_created
PaidForced(u) ==
    \A i \in Positions(u, "checkout_start") :
        /\ i < Len(events)
        /\ events[i + 1].event_name \in {"payment_failed", "subscription_created"}

\* one checkout attempt of user u was not a payment failure
PaymentPassed(u) ==
    \E i \in Positions(u, "checkout_start") :
        ~(i < Len(events) /\ events[i + 1].event_name = "payment_failed")

\* signup, create_first_project, trial_start, checkout_start with attempt 1
\* and subscription_created were appended in this relative order
FunnelOrder(u) ==
    \E i1 \in Positions(u, "signup"), i2 \in Positions(u, "create_first_project"),
       i3 \in Positions(u, "trial_start"), i4 \in Positions(u, "checkout_start"),
       i5 \in Positions(u, "subscription_created") :
        /\ i1 < i2 /\ i2 < i3 /\ i3 < i4 /\ i4 < i5
        /\ events[i4].attempt = 1

\* the generation of one solo user is complete and neither the activation
\* roll nor the trial-to-paid roll ever failed
ForcedSoloRun ==
    /\ NUM_USERS = 1
    /\ Finished
    /\ users[1].company_size = "solo"
    /\ ActivationForced(1)
    /\ PaidForced(1)

StarterRecord ==
    /\ Len(subscriptions) = 1
    /\ subscriptions[1].user_id = 1
    /\ subscriptions[1].plan = "starter"
    /\ subscriptions[1].mrr = 29

\* C8 as stated: one solo user whose activation and trial-to-paid rolls are
\* forced to succeed always ends with exactly one starter record of mrr 29
\* and the five funnel events in order.
C8_ForcedRunSubscribes ==
    ForcedSoloRun => (StarterRecord /\ FunnelOrder(1))

\* C8 as amended: in such a run there is exactly one record, starter with
\* mrr 29 and the five funnel events appended in order, if and only if the
\* user started a trial and one checkout attempt was not a payment failure;
\* otherwise there is no record.
C8_ForcedRunSubscribesIfPaid ==
    ForcedSoloRun =>
        /\ Len(subscriptions) <= 1
        /\ Len(subscriptions) = 1 <=> PaymentPassed(1)
        /\ Len(subscriptions) = 1 => (StarterRecord /\ FunnelOrder(1))

\* a forced run that subscribed on a retry after a payment failure
C8_Witness ==
    /\ ForcedSoloRun
    /\ Len(subscriptions) = 1
    /\ Positions(1, "payment_failed") # {}

\* C9: the events of one user, in the order they are appended (the sessions
\* in sequence, then the churn and retention markers), never go back in time.
C9_AppendOrderIsTimeOrder ==
    \A i, j \in EventIdx :
        (i < j /\ events[i].user_id = events[j].user_id)
            => events[i].event_ts <= events[j].event_ts

\* C10: every session starts at or after signup_ts, and a later session of
\* a user does not start before an earlier one.
C10_SessionStartsForward ==
    \A i \in EventIdx :
        OpensSession(i) =>
            /\ events[i].event_ts >= users[events[i].user_id].signup_ts
            /\ \A j \in EventIdx :
                  (i < j /\ OpensSession(j)
                     /\ events[j].user_id = events[i].user_id)
                      => events[i].event_ts <= events[j].event_ts

\* the number of events of user u with the given name
Count(u, name) == Cardinality(Positions(u, name))

\* C12: every user has exactly one signup event, emitted in the first
\* session of the user after the browsing events of that session;
\* email_verified, onboarding_start and onboarding_complete are emitted at
\* most once each, in that session and after signup, and
\* onboarding_complete only after an onboarding_start.
C12_SignupOnceInFirstSession ==
    \A u \in 1..Len(users) :
        /\ Count(u, "signup") <= 1
        /\ (Resolved(u)
              \/ \E i \in EventIdx : /\ events[i].user_id = u
                                     /\ events[i].event_name \notin BrowsingSamples)
              => Count(u, "signup") = 1
        /\ \A i \in Positions(u, "signup") :
              /\ \E j \in 1..(i - 1) : events[j].user_id = u
              /\ \A j \in 1..(i - 1) :
                    events[j].user_id = u =>
                        /\ events[j].event_name \in BrowsingSamples
                        /\ events[j].session_id = events[i].session_id
        /\ \A name \in {"email_verified", "onboarding_start",
                        "onboarding_complete"} :
              /\ Count(u, name) <= 1
              /\ \A k \in Positions(u, name) :
                    \E i \in Positions(u, "signup") :
                        i < k /\ events[i].session_id = events[k].session_id
        /\ \A k \in Positions(u, "onboarding_complete") :
              \E j \in Positions(u, "onboarding_start") : j < k

\* a user with two sessions and the four events, at the end of the journey
C12_Witness ==
    /\ pc = "resolve"
    /\ sessions = 2
    /\ Count(user_id, "signup") = 1
    /\ Count(user_id, "email_verified") = 1
    /\ Count(user_id, "onboarding_start") = 1
    /\ Count(user_id, "onboarding_complete") = 1

\* the milestone events of every user are emitted at most once
MilestonesOnce ==
    \A u \in 1..Len(users) :
        /\ Count(u, "create_first_project") <= 1
        /\ Count(u, "invite_teammate") + Count(u, "connect_integration") <= 1
        /\ Count(u, "trial_start") <= 1
        /\ Count(u, "subscription_created") <= 1

\* within the journey of one user no milestone flag goes back to false
FlagsKept ==
    user_id' = user_id =>
        /\ activated => activated'
        /\ value_moment => value_moment'
        /\ trial_started => trial_started'
        /\ subscribed => subscribed'

\* C13: across the sessions of one user the flags activated, value_moment,
\* trial_started and subscribed never go back to false, and each milestone
\* event (create_first_project, the value moment, trial_start,
\* subscription_created) is emitted at most once per user.
C13_MilestonesMonotone == [](MilestonesOnce) /\ [][FlagsKept]_vars

\* activated in the first session, trial and subscription in the second
C13_Witness ==
    /\ pc = "resolve"
    /\ activated /\ value_moment /\ trial_started /\ subscribed
    /\ \E i \in Positions(user_id, "create_first_project"),
          j \in Positions(user_id, "trial_start") :
          events[i].session_id # events[j].session_id

\* event i is followed by an event of the same user with the given name
FollowedBy(i, name) ==
    /\ i < Len(events)
    /\ events[i + 1].user_id = events[i].user_id
    /\ events[i + 1].event_name = name

\* event i comes right after an event of the same user with the given name
PrecededBy(i, name) ==
    /\ i > 1
    /\ events[i - 1].user_id = events[i].user_id
    /\ events[i - 1].event_name = name

\* C14: no checkout_start is emitted after an attempt that did not fail:
\* a checkout_start with attempt n > 1 comes right after the payment_failed
\* of attempt n - 1, a payment_failed is never followed by
\* subscription_created, which only ever follows a checkout_start.
C14_LoopEndsAfterPaid ==
    \A i \in EventIdx :
        /\ (events[i].event_name = "checkout_start" /\ events[i].attempt > 1) =>
              /\ PrecededBy(i, "payment_failed")
              /\ PrecededBy(i - 1, "checkout_start")
              /\ events[i - 2].attempt = events[i].attempt - 1
        /\ events[i].event_name = "checkout_start" =>
              \A j \in EventIdx :
                  (i < j /\ events[j].user_id = events[i].user_id
                         /\ events[j].event_name = "checkout_start")
                      => FollowedBy(i, "payment_failed")
        /\ events[i].event_name = "payment_failed" =>
              /\ PrecededBy(i, "checkout_start")
              /\ ~FollowedBy(i, "subscription_created")
        /\ events[i].event_name = "subscription_created" =>
              PrecededBy(i, "checkout_start")

\* two failed attempts, then a third one that subscribes
C14_Witness ==
    \E u \in 1..Len(users) :
        /\ Count(u, "payment_failed") = 2
        /\ Count(u, "checkout_start") = 3
        /\ Count(u, "subscription_created") = 1

\* subscribed and subscription_start_ts are set together, to the timestamp
\* of the subscription_created event, and every record carries that timestamp
StartIsSubscriptionCreated ==
    /\ subscribed <=> subscription_start_ts # None
    /\ subscription_start_ts # None =>
          /\ Count(user_id, "subscription_created") = 1
          /\ \A i \in Positions(user_id, "subscription_created") :
                events[i].event_ts = Val(subscription_start_ts)
    /\ \A k \in SubIdx :
          /\ Count(subscriptions[k].user_id, "subscription_created") = 1
          /\ \A i \in Positions(subscriptions[k].user_id, "subscription_created") :
                events[i].event_ts = subscriptions[k].subscription_start_ts

\* within the journey of one user the start timestamp is assigned once, in
\* the step that sets subscribed
StartSetOnce ==
    user_id' = user_id =>
        /\ subscription_start_ts # None
              => subscription_start_ts' = subscription_start_ts
        /\ (~subscribed /\ subscribed')
              => (subscription_start_ts = None /\ subscription_start_ts' # None)

\* C15: subscription_start_ts is set once, when subscribed becomes true, to
\* the timestamp of the subscription_created event; subscribed holds exactly
\* when it is set, and every record carries the timestamp of the single
\* subscription_created event of its user.
C15_StartSetWithSubscribed ==
    [](StartIsSubscriptionCreated) /\ [][StartSetOnce]_vars

\* a resolved subscriber whose record carries the recorded start
C15_Witness ==
    /\ pc = "user_loop"
    /\ subscribed
    /\ \E k \in SubIdx :
          /\ subscriptions[k].user_id = user_id
          /\ subscriptions[k].subscription_start_ts = Val(subscription_start_ts)

\* C16: a user has a cancel_subscription event exactly if the user has a
\* record with a churn_ts that is not null; there is at most one such event
\* and its timestamp is that churn_ts.
C16_CancelIffChurn ==
    \A u \in 1..Len(users) :
        /\ Count(u, "cancel_subscription") <= 1
        /\ Count(u, "cancel_subscription") = 1
              <=> \E k \in SubIdx : /\ subscriptions[k].user_id = u
                                    /\ subscriptions[k].churn_ts # None
        /\ \A i \in Positions(u, "cancel_subscription"), k \in SubIdx :
              subscriptions[k].user_id = u
                  => subscriptions[k].churn_ts = Some(events[i].event_ts)

\* one churned and one retained subscriber side by side
C16_Witness ==
    \E k1, k2 \in SubIdx :
        /\ subscriptions[k1].churn_ts # None
        /\ Count(subscriptions[k1].user_id, "cancel_subscription") = 1
        /\ subscriptions[k2].churn_ts = None
        /\ Count(subscriptions[k2].user_id, "cancel_subscription") = 0

\* the journey of user u is resolved and ended with subscribed = false
ResolvedUnsubscribed(u) ==
    /\ Resolved(u)
    /\ Count(u, "subscription_created") = 0
    /\ (u = user_id /\ pc = "user_loop") => ~subscribed

\* C17: a user whose journey ends with subscribed = false gets no record,
\* no cancel_subscription, no active_day_30, and at most one active_day_7,
\* only if activated, stamped between signup_ts + 7 days and
\* signup_ts + 7 days + 600 minutes.
C17_UnsubscribedMarkers ==
    /\ (pc = "user_loop" /\ user_id >= 1 /\ ~subscribed)
          => ResolvedUnsubscribed(user_id)
    /\ \A u \in 1..Len(users) :
          ResolvedUnsubscribed(u) =>
              /\ \A k \in SubIdx : subscriptions[k].user_id # u
              /\ Count(u, "cancel_subscription") = 0
              /\ Count(u, "active_day_30") = 0
              /\ Count(u, "active_day_7") <= 1
              /\ \A i \in Positions(u, "active_day_7") :
                    /\ Count(u, "create_first_project") = 1
                    /\ (u = user_id /\ pc = "user_loop") => activated
                    /\ events[i].event_ts >= users[u].signup_ts + Days(7)
                    /\ events[i].event_ts
                          <= users[u].signup_ts + Days(7) + Minutes(600)

\* an activated user who never subscribed, with the latest possible marker
C17_Witness ==
    \E u \in 1..Len(users) :
        /\ ResolvedUnsubscribed(u)
        /\ Count(u, "trial_start") = 1
        /\ \E i \in Positions(u, "active_day_7") :
              events[i].event_ts = users[u].signup_ts + Days(7) + Minutes(600)

\* the collections hold the users one after another
UsersInSequence ==
    /\ (pc = "session_loop" /\ s = 0) =>
          /\ ~activated /\ ~value_moment /\ ~trial_started /\ ~subscribed
          /\ subscription_start_ts = None
    /\ Len(users) = user_id
    /\ \A i \in 1..Len(users) : users[i].user_id = i
    /\ Finished => Len(users) = NUM_USERS
    /\ \A i \in EventIdx :
          /\ events[i].user_id \in 1..user_id
          /\ \A j \in EventIdx : i < j => events[i].user_id <= events[j].user_id
    /\ \A k \in SubIdx :
          /\ Resolved(subscriptions[k].user_id)
          /\ \A l \in SubIdx :
                k < l => subscriptions[k].user_id < subscriptions[l].user_id

\* a step appends events and records of the running user only, and the next
\* user is taken once the running one is resolved
AppendsOwn ==
    /\ events' # events =>
          /\ user_id' = user_id
          /\ Len(events') > Len(events)
          /\ SubSeq(events', 1, Len(events)) = events
          /\ \A i \in (Len(events) + 1)..Len(events') :
                events'[i].user_id = user_id
    /\ subscriptions' # subscriptions =>
          /\ user_id' = user_id
          /\ pc = "resolve"
          /\ subscriptions' = Append(subscriptions, subscriptions'[Len(subscriptions')])
          /\ subscriptions'[Len(subscriptions')].user_id = user_id
    /\ users' # users =>
          /\ pc = "user_loop"
          /\ user_id' = user_id + 1
          /\ Len(users') = Len(users) + 1

\* C18: the users are generated one after another: every journey starts
\* with the four flags false and no start timestamp whatever the previous
\* user ended with, the events and the record of a user are appended before
\* anything of the next user, and users holds one record per identifier
\* 1..NUM_USERS in increasing order.
C18_UsersOneAfterAnother == [](UsersInSequence) /\ [][AppendsOwn]_vars

\* the second user starts its journey after a first user who subscribed
C18_Witness ==
    /\ NUM_USERS = 2
    /\ pc = "session_loop"
    /\ user_id = 2
    /\ s = 0
    /\ Len(subscriptions) = 1
    /\ Count(1, "create_first_project") = 1

FunnelMilestones ==
    {"create_first_project", "trial_start", "checkout_start",
     "subscription_created"}

\* C19: the signup event of a user is not later than the
\* create_first_project, trial_start, checkout_start and
\* subscription_created events of that user, so that signup comes before
\* them in the table sorted by (user_id, event_ts).
C19_SignupBeforeMilestones ==
    /\ \A i, j \in EventIdx :
          (/\ events[i].user_id = events[j].user_id
           /\ events[i].event_name = "signup"
           /\ events[j].event_name \in FunnelMilestones)
              => events[i].event_ts <= events[j].event_ts
    /\ Finished =>
          \A i, j \in 1..Len(events_df) :
              (/\ events_df[i].user_id = events_df[j].user_id
               /\ events_df[i].event_name = "signup"
               /\ events_df[j].event_name \in FunnelMilestones)
                  => i < j

CheckoutEvents == {"checkout_start", "payment_failed", "subscription_created"}

\* the checkout events and the records go back to the session of trial_start
CheckoutInTrialSession ==
    /\ \A i \in EventIdx :
          events[i].event_name \in CheckoutEvents =>
              /\ Count(events[i].user_id, "trial_start") >= 1
              /\ \A j \in Positions(events[i].user_id, "trial_start") :
                    j < i /\ events[j].session_id = events[i].session_id
    /\ \A k \in SubIdx :
          \E i \in Positions(subscriptions[k].user_id, "subscription_created"),
             j \in Positions(subscriptions[k].user_id, "trial_start") :
              events[i].session_id = events[j].session_id

\* subscribed becomes true only in the session of the trial_start event
SubscribesInTrialSession ==
    (user_id' = user_id /\ ~subscribed /\ subscribed') =>
        /\ Count(user_id, "trial_start") = 1
        /\ \A j \in Positions(user_id, "trial_start") :
              events[j].session_id = session_id

\* C20: checkout_start, payment_failed and subscription_created carry the
\* session identifier of the trial_start of their user and come after it;
\* once the session of trial_start is over with subscribed = false,
\* subscribed stays false and the user gets no record.
C20_CheckoutOnlyInTrialSession ==
    [](CheckoutInTrialSession) /\ [][SubscribesInTrialSession]_vars

\* a trial in the first session that did not subscribe, a second session
\* after it, and the journey ends with subscribed = false
C20_Witness ==
    /\ pc = "user_loop"
    /\ sessions = 2
    /\ trial_started /\ ~subscribed
    /\ Count(user_id, "checkout_start") >= 1
    /\ \A j \in Positions(user_id, "trial_start") :
          events[j].session_id # session_id
    /\ \A k \in SubIdx : subscriptions[k].user_id # user_id

\* C21: for every subscription record with a churn_ts, no active_day_7 or
\* active_day_30 event of that user is later than churn_ts; active_day_30
\* may fall on churn_ts itself.
C21_MarkersNotAfterChurn ==
    \A k \in SubIdx :
        subscriptions[k].churn_ts # None =>
            \A i \in EventIdx :
                (/\ events[i].user_id = subscriptions[k].user_id
                 /\ events[i].event_name \in {"active_day_7", "active_day_30"})
                    => events[i].event_ts <= Val(subscriptions[k].churn_ts)

\* a churned subscriber whose active_day_30 falls on churn_ts and whose
\* active_day_7 is before it
C21_Witness ==
    \E k \in SubIdx :
        /\ subscriptions[k].churn_ts # None
        /\ \E i \in Positions(subscriptions[k].user_id, "active_day_30") :
              events[i].event_ts = Val(subscriptions[k].churn_ts)
        /\ \E i \in Positions(subscriptions[k].user_id, "active_day_7") :
              events[i].event_ts < Val(subscriptions[k].churn_ts)
====
